---- MODULE Spec2Model ----
(***************************************************************************)
(* Material order routes (src/routes/materialOrderRoute.js): the five      *)
(* Express handlers over the MaterialOrder collection.                     *)
(*                                                                         *)
(* JavaScript values are records [t, n, s]: t is the type tag, n the       *)
(* number in thousandths (2.505 is 2505) and s the characters of a string. *)
(* Products of two numbers are in millionths.  Decimal arithmetic is       *)
(* exact here; the binary rounding of IEEE doubles is not represented.     *)
(*                                                                         *)
(* A handler runs in two steps: from its start to its await of the storage *)
(* collaborator (or to an early response), and from the return or throw of *)
(* the storage call to its end.  Handlers of different requests interleave *)
(* at the await.  The MaterialOrder model is not part of the sources; its  *)
(* operations follow the storage contract (create, find-all, find-by-id,   *)
(* find-and-update-by-id with merge semantics, find-and-delete-by-id).     *)
(*                                                                         *)
(* Spec is the router with its five handlers; SpecCreate is POST / alone,  *)
(* over a wider set of request bodies.                                     *)
(***************************************************************************)
EXTENDS Integers, Sequences, FiniteSets, Bags

\* ---------------------------------------------------------------- bounds
\* Identifiers the storage can hand out (number of successful creates).
MaxIds == 2
\* Requests that may be awaiting the storage collaborator at the same time.
MaxInFlight == 2
\* Requests received in one behaviour.
MaxRequests == 3

\* ------------------------------------------------------ JavaScript values
Undefined == [t |-> "undefined", n |-> 0, s |-> <<>>]
NaN == [t |-> "nan", n |-> 0, s |-> <<>>]
Num(k) == [t |-> "number", n |-> k, s |-> <<>>]
Str(cs) == [t |-> "string", n |-> 0, s |-> cs]

\* ToBoolean: undefined, NaN, 0 and "" are falsy.
Truthy(v) ==
    CASE v.t = "number" -> v.n # 0
      [] v.t = "string" -> Len(v.s) > 0
      [] OTHER -> FALSE

\* a || b
OrElse(a, b) == IF Truthy(a) THEN a ELSE b

IsNaN(v) == v.t = "nan"

Digits == <<"0", "1", "2", "3", "4", "5", "6", "7", "8", "9">>
IsDigit(c) == \E i \in 1..10 : Digits[i] = c
DigitVal(c) == (CHOOSE i \in 1..10 : Digits[i] = c) - 1

RECURSIVE NatToChars(_)
NatToChars(k) ==
    IF k < 10 THEN <<Digits[k + 1]>>
    ELSE NatToChars(k \div 10) \o <<Digits[(k % 10) + 1]>>

Abs(k) == IF k < 0 THEN -k ELSE k

\* The fraction digits of a number of thousandths, trailing zeros dropped.
FracChars(m) ==
    IF m = 0 THEN <<>>
    ELSE IF m % 100 = 0 THEN <<".", Digits[(m \div 100) + 1]>>
    ELSE IF m % 10 = 0
         THEN <<".", Digits[(m \div 100) + 1], Digits[((m \div 10) % 10) + 1]>>
    ELSE <<".", Digits[(m \div 100) + 1], Digits[((m \div 10) % 10) + 1],
           Digits[(m % 10) + 1]>>

\* String(v): what parseFloat reads of a value that is not a string.
StringOf(v) ==
    CASE v.t = "string" -> v.s
      [] v.t = "number" ->
           (IF v.n < 0 THEN <<"-">> ELSE <<>>)
           \o NatToChars(Abs(v.n) \div 1000) \o FracChars(Abs(v.n) % 1000)
      [] v.t = "nan" -> <<"N", "a", "N">>
      [] OTHER -> <<"u", "n", "d", "e", "f", "i", "n", "e", "d">>

RECURSIVE SkipSpaces(_)
SkipSpaces(cs) ==
    IF cs # <<>> /\ Head(cs) = " " THEN SkipSpaces(Tail(cs)) ELSE cs

\* The longest prefix of cs made of digits.
RECURSIVE DigitPrefix(_)
DigitPrefix(cs) ==
    IF cs # <<>> /\ IsDigit(Head(cs))
    THEN <<Head(cs)>> \o DigitPrefix(Tail(cs))
    ELSE <<>>

RECURSIVE CharsToNat(_)
CharsToNat(cs) ==
    IF cs = <<>> THEN 0
    ELSE 10 * CharsToNat(SubSeq(cs, 1, Len(cs) - 1)) + DigitVal(cs[Len(cs)])

Drop(cs, k) == SubSeq(cs, k + 1, Len(cs))

\* Thousandths denoted by the fraction digits ds (digits past the third are
\* below the resolution of the representation).
FracValue(ds) ==
    (IF Len(ds) >= 1 THEN 100 * DigitVal(ds[1]) ELSE 0)
    + (IF Len(ds) >= 2 THEN 10 * DigitVal(ds[2]) ELSE 0)
    + (IF Len(ds) >= 3 THEN DigitVal(ds[3]) ELSE 0)

\* parseFloat on characters: leading blanks, a sign, digits, a point, digits;
\* it stops at the first character that does not fit and is NaN when no digit
\* was read.
ParseChars(cs) ==
    LET a == SkipSpaces(cs)
        neg == a # <<>> /\ Head(a) = "-"
        b == IF a # <<>> /\ Head(a) \in {"-", "+"} THEN Tail(a) ELSE a
        ip == DigitPrefix(b)
        c == Drop(b, Len(ip))
        fp == IF c # <<>> /\ Head(c) = "." THEN DigitPrefix(Tail(c)) ELSE <<>>
        mag == 1000 * CharsToNat(ip) + FracValue(fp)
    IN  IF ip = <<>> /\ fp = <<>> THEN NaN
        ELSE Num(IF neg THEN -mag ELSE mag)

\* parseFloat(v): the argument is converted to a string and parsed.
ParseFloat(v) == ParseChars(StringOf(v))

\* Hundredths nearest to p millionths, halves away from zero.
RoundHundredths(p) ==
    IF p >= 0 THEN (p + 5000) \div 10000 ELSE -((-p + 5000) \div 10000)

\* (a * b).toFixed(2) for numbers a, b: the product to two decimals, as text.
ProductToFixed2(a, b) ==
    LET h == RoundHundredths(a.n * b.n)
    IN  (IF h < 0 THEN <<"-">> ELSE <<>>)
        \o NatToChars(Abs(h) \div 100)
        \o <<".", Digits[((Abs(h) \div 10) % 10) + 1], Digits[(Abs(h) % 10) + 1]>>

\* parseFloat((a * b).toFixed(2)); NaN when a factor is not a number.
RoundedCalculatedTotal(a, b) ==
    IF a.t = "number" /\ b.t = "number"
    THEN ParseChars(ProductToFixed2(a, b))
    ELSE NaN

\* x !== y on numbers: NaN differs from everything, itself included.
StrictNotEqual(x, y) ==
    IF x.t = "number" /\ y.t = "number" THEN x.n # y.n
    ELSE IF x.t = "nan" \/ y.t = "nan" THEN TRUE
    ELSE x # y

\* ------------------------------------------------------------- documents
TextFields ==
    {"materialId", "itemDescription", "supplier", "unitOfMeasurement", "orderDate"}
NumFields == {"quantity", "unitPrice", "totalPrice"}
Fields == TextFields \cup NumFields \cup {"items", "status"}

\* The result of a lookup that resolves to no document.
Null == [t |-> "null", n |-> 0, s |-> <<>>]

\* A request body with no field in it.
EmptyBody == [f \in Fields |-> Undefined]

\* An HTTP response: res.status(code).json({message, order}) or .json(order).
Resp(code, message, order) == [code |-> code, message |-> message, order |-> order]

\* ------------------------------------------------------- router.post("/")
\* PostMissing with orderDate left out of the test.
PostMissingNoDate(b) ==
    \/ ~Truthy(b.materialId)
    \/ ~Truthy(b.itemDescription)
    \/ ~Truthy(b.supplier)
    \/ ~Truthy(b.quantity)
    \/ ~Truthy(b.unitOfMeasurement)
    \/ ~Truthy(b.unitPrice)
    \/ ~Truthy(b.totalPrice)

\* if (!materialId || ... || !orderDate)
PostMissing(b) ==
    \/ ~Truthy(b.materialId)
    \/ ~Truthy(b.itemDescription)
    \/ ~Truthy(b.supplier)
    \/ ~Truthy(b.quantity)
    \/ ~Truthy(b.unitOfMeasurement)
    \/ ~Truthy(b.unitPrice)
    \/ ~Truthy(b.totalPrice)
    \/ ~Truthy(b.orderDate)

\* if (isNaN(parsedQuantity) || isNaN(parsedUnitPrice) || isNaN(parsedTotalPrice))
PostNotNumbers(b) ==
    \/ IsNaN(ParseFloat(b.quantity))
    \/ IsNaN(ParseFloat(b.unitPrice))
    \/ IsNaN(ParseFloat(b.totalPrice))

\* PostTotalWrong with === written for !==.
PostTotalWrongInverted(b) ==
    ~StrictNotEqual(
        RoundedCalculatedTotal(ParseFloat(b.quantity), ParseFloat(b.unitPrice)),
        ParseFloat(b.totalPrice))

\* if (roundedCalculatedTotal !== parsedTotalPrice)
PostTotalWrong(b) ==
    StrictNotEqual(
        RoundedCalculatedTotal(ParseFloat(b.quantity), ParseFloat(b.unitPrice)),
        ParseFloat(b.totalPrice))

\* NewMaterialOrder built from the raw fields instead of the parsed numbers.
NewMaterialOrderUnparsed(b) ==
    [f \in Fields |->
        IF f = "status" THEN OrElse(b.status, Str(<<"P", "e", "n", "d", "i", "n", "g">>))
        ELSE b[f]]

\* new MaterialOrder({...})
NewMaterialOrder(b) ==
    [f \in Fields |->
        CASE f \in NumFields -> ParseFloat(b[f])
          [] f = "status" -> OrElse(b.status, Str(<<"P", "e", "n", "d", "i", "n", "g">>))
          [] OTHER -> b[f]]

\* PostValidate without the check of the total.
PostValidateNoTotal(b) ==
    IF PostMissing(b)
    THEN <<Resp(400, "All fields are required.", Null)>>
    ELSE IF PostNotNumbers(b)
    THEN <<Resp(400, "Quantity, Unit Price, and Total Price must be valid numbers.",
                Null)>>
    ELSE <<>>

\* The responses of the handler before it awaits save(); none when it goes on.
PostValidate(b) ==
    IF PostMissing(b)
    THEN <<Resp(400, "All fields are required.", Null)>>
    ELSE IF PostNotNumbers(b)
    THEN <<Resp(400, "Quantity, Unit Price, and Total Price must be valid numbers.",
                Null)>>
    ELSE IF PostTotalWrong(b)
    THEN <<Resp(400, "Error in Total Price: Your total price is incorrect", Null)>>
    ELSE <<>>

PostSaved(doc) == <<Resp(201, "Material Request created successfully", doc)>>

PostCatch == <<Resp(500, "Server error. Please try again later.", Null)>>

\* -------------------------------------------------- router.get("/allList")
ListFound(orders) == <<Resp(200, "", orders)>>

ListCatch == <<Resp(500, "Server error", Null)>>

\* ------------------------------------------------------ router.get("/:id")
\* GetFound without the test for a missing document.
GetFoundNoCheck(order) == <<Resp(200, "", order)>>

GetFound(order) ==
    IF order = Null
    THEN <<Resp(404, "Material order not found", Null)>>
    ELSE <<Resp(200, "", order)>>

GetCatch == <<Resp(500, "Server error", Null)>>

\* ------------------------------------------------------ router.put("/:id")
\* PutParse parsing the numeric fields whether they are in the body or not.
PutParseAlways(b) ==
    [f \in Fields |-> IF f \in NumFields THEN ParseFloat(b[f]) ELSE b[f]]

\* if (updates.f) updates.f = parseFloat(updates.f), for the numeric fields
PutParse(b) ==
    [f \in Fields |->
        IF f \in NumFields /\ Truthy(b[f]) THEN ParseFloat(b[f]) ELSE b[f]]

\* PutTotalWrong comparing the total even when the body has none.
PutTotalWrongStrict(u) ==
    /\ Truthy(u.quantity) /\ Truthy(u.unitPrice)
    /\ StrictNotEqual(RoundedCalculatedTotal(u.quantity, u.unitPrice), u.totalPrice)

\* The total is checked only if quantity, unitPrice and totalPrice are truthy.
PutTotalWrong(u) ==
    /\ Truthy(u.quantity) /\ Truthy(u.unitPrice)
    /\ Truthy(u.totalPrice)
    /\ StrictNotEqual(RoundedCalculatedTotal(u.quantity, u.unitPrice), u.totalPrice)

\* The responses of the handler before it awaits findByIdAndUpdate().
PutValidate(b) ==
    IF PutTotalWrong(PutParse(b))
    THEN <<Resp(400, "Error in Total Price: Your total price is incorrect.", Null)>>
    ELSE <<>>

\* PutUpdated without the test for a missing document.
PutUpdatedNoCheck(updatedOrder) ==
    <<Resp(200, "Material request updated successfully", updatedOrder)>>

PutUpdated(updatedOrder) ==
    IF updatedOrder = Null
    THEN <<Resp(404, "Material request not found", Null)>>
    ELSE <<Resp(200, "Material request updated successfully", updatedOrder)>>

PutCatch == <<Resp(500, "Server error. Please try again later.", Null)>>

\* --------------------------------------------------- router.delete("/:id")
DeleteDone(deletedOrder) ==
    IF deletedOrder = Null
    THEN <<Resp(404, "Material order not found", Null)>>
    ELSE <<Resp(200, "Material order deleted successfully", Null)>>

DeleteCatch == <<Resp(500, "Server error", Null)>>

\* Catch blocks that log the error and send nothing.
CatchSilent(op) == <<>>

\* The catch block of each handler.
Catch(op) ==
    CASE op = "post" -> PostCatch
      [] op = "list" -> ListCatch
      [] op = "get" -> GetCatch
      [] op = "put" -> PutCatch
      [] op = "delete" -> DeleteCatch

\* ------------------------------------------- the MaterialOrder collection
\* The collection is a function from identifiers to documents.
Ids == 1..MaxIds

\* newMaterialOrder.save(): the document is stored under a fresh identifier.
Save(st, id, doc) == [i \in DOMAIN st \cup {id} |-> IF i = id THEN doc ELSE st[i]]

\* MaterialOrder.find()
Find(st) == {st[i] : i \in DOMAIN st}

\* MaterialOrder.findById(id)
FindById(st, id) == IF id \in DOMAIN st THEN st[id] ELSE Null

\* The document with the fields of the update written over it.
Merge(doc, u) == [f \in Fields |-> IF u[f] # Undefined THEN u[f] ELSE doc[f]]

\* MaterialOrder.findByIdAndUpdate(id, updates, {new: true}): the collection after.
UpdateById(st, id, u) ==
    IF id \in DOMAIN st THEN [st EXCEPT ![id] = Merge(st[id], u)] ELSE st

\* MaterialOrder.findByIdAndDelete(id): the collection after.
DeleteById(st, id) == [i \in DOMAIN st \ {id} |-> st[i]]

\* ---------------------------------------------------------- request inputs
\* A body with every required field set and a total that fits: 2 * 2.505 = 5.01.
BaseBody ==
    [f \in Fields |->
        CASE f \in TextFields -> Str(<<"A">>)
          [] f = "quantity" -> Num(2000)
          [] f = "unitPrice" -> Num(2505)
          [] f = "totalPrice" -> Num(5010)
          [] OTHER -> Undefined]

RequiredFields == TextFields \cup NumFields

Shipped == Str(<<"S", "h", "i", "p", "p", "e", "d">>)

\* The bodies POST / is called with when creates are examined on their own:
\* the base body with one required field missing, empty, zero or not a
\* number, with a total that does not fit, or with a status; and a second body
\* that fits, its numbers given as text (3 * 2.505 = 7.515, to two decimals 7.52).
AllPostBodies ==
    {[BaseBody EXCEPT ![f] = v] : f \in RequiredFields, v \in {Undefined, Str(<<>>)}}
    \cup {[BaseBody EXCEPT ![f] = v] : f \in NumFields, v \in {Num(0), Str(<<"x">>)}}
    \cup {[BaseBody EXCEPT !.totalPrice = v] : v \in {Num(5000), Num(5015)}}
    \cup {[BaseBody EXCEPT !.status = v] : v \in {Undefined, Str(<<>>), Shipped}}
    \cup {[BaseBody EXCEPT !.quantity = Str(<<" ", "3", "k", "g">>),
                           !.totalPrice = Str(<<"7", ".", "5", "2", "0">>)]}

\* The bodies POST / is called with among the other requests: one that is
\* saved and one whose total does not fit.
PostBodies == {BaseBody, [BaseBody EXCEPT !.totalPrice = Num(5015)]}

\* The partial bodies PUT /:id is called with (5 * 4 = 20): a status alone, a
\* total alone, and quantity and unitPrice with no total, the right total
\* (given as text) or a wrong one.
PutBodies ==
    {[EmptyBody EXCEPT !.status = Shipped], [EmptyBody EXCEPT !.totalPrice = Num(7000)]}
    \cup {[EmptyBody EXCEPT !.quantity = Num(5000), !.unitPrice = Num(4000),
                            !.totalPrice = t] :
            t \in {Undefined, Str(<<"2", "0">>), Num(7000)}}
    \cup {[EmptyBody EXCEPT !.quantity = Num(0), !.unitPrice = Num(4000),
                            !.totalPrice = Num(7000)]}

\* ------------------------------------------------------------------ state
VARIABLES
    store,      \* the MaterialOrder collection: identifier -> document
    nextId,     \* the identifier the next saved document gets
    inflight,   \* the handlers awaiting the storage collaborator (a bag)
    received,   \* the number of requests received
    last,       \* the request that finished last, with its responses
    deletedOk,  \* history: the identifiers a DELETE answered 200 for
    unchecked   \* history: the identifiers whose numeric fields were last
                \* written by an update the total check did not cover

vars == <<store, nextId, inflight, received, last, deletedOk, unchecked>>

\* A request: after tells whether it was received after a DELETE of its
\* identifier had been answered 200.
Request(op, id, body, after) == [op |-> op, id |-> id, body |-> body, after |-> after]

NoRequest == Request("idle", 0, EmptyBody, FALSE)

\* The record of a finished request: what it was, what it answered, what
\* became of its storage call ("none" when the handler answered before making
\* it, "returned" or "threw"), and the collection before and after it.
Finished(r, resp, call, pre, post) ==
    [op |-> r.op, id |-> r.id, body |-> r.body, after |-> r.after,
     resp |-> resp, call |-> call, pre |-> pre, post |-> post]

Init ==
    /\ store = <<>>
    /\ nextId = 1
    /\ inflight = EmptyBag
    /\ received = 0
    /\ last = Finished(NoRequest, <<>>, "none", <<>>, <<>>)
    /\ deletedOk = {}
    /\ unchecked = {}

CanReceive == received < MaxRequests /\ BagCardinality(inflight) < MaxInFlight

\* The handlers of op awaiting the storage.
Awaiting(op) ==
    BagCardinality([r \in {x \in BagToSet(inflight) : x.op = op} |-> inflight[r]])

\* The handler runs up to its await: it has answered (out is not empty) and
\* is finished, or it awaits the storage collaborator.
Receive(r, out) ==
    /\ received' = received + 1
    /\ IF out # <<>>
       THEN /\ last' = Finished(r, out, "none", store, store)
            /\ UNCHANGED inflight
       ELSE /\ inflight' = inflight (+) SetToBag({r})
            /\ UNCHANGED last
    /\ UNCHANGED <<store, nextId, deletedOk, unchecked>>

\* POST /, lines 6-72.
PostReq(b) ==
    /\ CanReceive
    /\ PostValidate(b) = <<>> => nextId + Awaiting("post") <= MaxIds
    /\ Receive(Request("post", 0, b, FALSE), PostValidate(b))

\* GET /allList, line 89.
ListReq ==
    /\ CanReceive
    /\ Receive(Request("list", 0, EmptyBody, FALSE), <<>>)

\* GET /:id, line 100.
GetReq(id) ==
    /\ CanReceive
    /\ Receive(Request("get", id, EmptyBody, id \in deletedOk), <<>>)

\* PUT /:id, lines 112-139.
PutReq(id, b) ==
    /\ CanReceive
    /\ Receive(Request("put", id, b, FALSE), PutValidate(b))

\* DELETE /:id, line 158.
DeleteReq(id) ==
    /\ CanReceive
    /\ Receive(Request("delete", id, EmptyBody, FALSE), <<>>)

\* The storage call of the handler of r returns: the rest of the handler runs.
Finish(r, resp, post) ==
    /\ last' = Finished(r, resp, "returned", store, post)
    /\ store' = post
    /\ inflight' = inflight (-) SetToBag({r})
    /\ UNCHANGED received

\* await newMaterialOrder.save(), lines 74-79.
PostSave(r) ==
    /\ r.op = "post"
    /\ LET doc == NewMaterialOrder(r.body)
       IN  Finish(r, PostSaved(doc), Save(store, nextId, doc))
    /\ nextId' = nextId + 1
    /\ UNCHANGED <<deletedOk, unchecked>>

\* await MaterialOrder.find(), lines 89-90.
ListFind(r) ==
    /\ r.op = "list"
    /\ Finish(r, ListFound(Find(store)), store)
    /\ UNCHANGED <<nextId, deletedOk, unchecked>>

\* await MaterialOrder.findById(), lines 100-104.
GetFind(r) ==
    /\ r.op = "get"
    /\ Finish(r, GetFound(FindById(store, r.id)), store)
    /\ UNCHANGED <<nextId, deletedOk, unchecked>>

\* Whether the update u writes a numeric field.
WritesNumbers(u) == \E f \in NumFields : u[f] # Undefined

\* Whether the total check of PUT ran over the update u.
TotalChecked(u) == Truthy(u.quantity) /\ Truthy(u.unitPrice) /\ Truthy(u.totalPrice)

\* await MaterialOrder.findByIdAndUpdate(), lines 135-148.
PutUpdate(r) ==
    /\ r.op = "put"
    /\ LET u == PutParse(r.body)
           post == UpdateById(store, r.id, u)
       IN  /\ Finish(r, PutUpdated(FindById(post, r.id)), post)
           /\ unchecked' =
                IF r.id \notin DOMAIN store \/ ~WritesNumbers(u) THEN unchecked
                ELSE IF TotalChecked(u) THEN unchecked \ {r.id}
                ELSE unchecked \cup {r.id}
    /\ UNCHANGED <<nextId, deletedOk>>

\* await MaterialOrder.findByIdAndDelete(), lines 158-164.
DeleteRemove(r) ==
    /\ r.op = "delete"
    /\ LET resp == DeleteDone(FindById(store, r.id))
       IN  /\ Finish(r, resp, DeleteById(store, r.id))
           /\ deletedOk' = IF resp # <<>> /\ resp[1].code = 200
                           THEN deletedOk \cup {r.id} ELSE deletedOk
    /\ UNCHANGED <<nextId, unchecked>>

\* The storage call of the handler of r throws: its catch block runs.
StorageThrows(r) ==
    /\ last' = Finished(r, Catch(r.op), "threw", store, store)
    /\ inflight' = inflight (-) SetToBag({r})
    /\ UNCHANGED <<store, nextId, received, deletedOk, unchecked>>

\* The router: the five handlers, any number of them awaiting the storage.
Next ==
    \/ \E b \in PostBodies : PostReq(b)
    \/ ListReq
    \/ \E id \in Ids : GetReq(id)
    \/ \E id \in Ids, b \in PutBodies : PutReq(id, b)
    \/ \E id \in Ids : DeleteReq(id)
    \/ \E r \in BagToSet(inflight) : PostSave(r)
    \/ \E r \in BagToSet(inflight) : ListFind(r)
    \/ \E r \in BagToSet(inflight) : GetFind(r)
    \/ \E r \in BagToSet(inflight) : PutUpdate(r)
    \/ \E r \in BagToSet(inflight) : DeleteRemove(r)
    \/ \E r \in BagToSet(inflight) : StorageThrows(r)

Spec == Init /\ [][Next]_vars

\* POST / alone, over all the bodies.
NextCreate ==
    \/ \E b \in AllPostBodies : PostReq(b)
    \/ \E r \in BagToSet(inflight) : PostSave(r)
    \/ \E r \in BagToSet(inflight) : StorageThrows(r)

SpecCreate == Init /\ [][NextCreate]_vars

\* ----------------------------------------------------------------- claims
\* The one response of the request that finished last: its code and message.
Answered(code, message) ==
    /\ Len(last.resp) = 1
    /\ last.resp[1].code = code
    /\ last.resp[1].message = message

AnswerCode == IF Len(last.resp) >= 1 THEN last.resp[1].code ELSE 0

\* round(quantity * unitPrice, 2) == totalPrice, on a stored document.
Consistent(d) ==
    /\ d.quantity.t = "number" /\ d.unitPrice.t = "number" /\ d.totalPrice.t = "number"
    /\ 10 * RoundHundredths(d.quantity.n * d.unitPrice.n) = d.totalPrice.n

\* The same on the parsed numbers of a request body.
BodyFits(b) ==
    Consistent([quantity |-> ParseFloat(b.quantity), unitPrice |-> ParseFloat(b.unitPrice),
                totalPrice |-> ParseFloat(b.totalPrice)])

BodyParses(b) == \A f \in NumFields : ParseFloat(b[f]).t = "number"

AllRequiredTruthy(b) == \A f \in RequiredFields : Truthy(b[f])

PendingStatus == Str(<<"P", "e", "n", "d", "i", "n", "g">>)

\* The last request added exactly one document, under id, and changed no other.
AddedOne(id) ==
    /\ id \notin DOMAIN last.pre
    /\ DOMAIN last.post = DOMAIN last.pre \cup {id}
    /\ \A i \in DOMAIN last.pre : last.post[i] = last.pre[i]

C2_Created(b) ==
    /\ Answered(201, "Material Request created successfully")
    /\ \E id \in Ids :
        /\ AddedOne(id)
        /\ \A f \in NumFields : last.post[id][f] = ParseFloat(b[f])
        /\ last.resp[1].order = last.post[id]

C2_Case ==
    /\ last.op = "post" /\ last.call = "returned"
    /\ AllRequiredTruthy(last.body) /\ BodyParses(last.body) /\ BodyFits(last.body)

\* C2 as stated: a create with the eight required fields truthy, numbers that
\* parse and a total that fits, whose save succeeds, answers 201 and adds
\* exactly one record holding the parsed numbers, whose status is the supplied
\* status, or "Pending" when the body has no status.
C2_StatusSuppliedOrPending ==
    C2_Case =>
        /\ C2_Created(last.body)
        /\ \E id \in DOMAIN last.post \ DOMAIN last.pre :
             last.post[id].status =
                IF last.body.status = Undefined THEN PendingStatus ELSE last.body.status

\* C2 amended: as stated, but the status of the new record is the supplied
\* status when that is truthy, and "Pending" when it is absent or falsy (an
\* empty string).
C2_StatusTruthyOrPending ==
    C2_Case =>
        /\ C2_Created(last.body)
        /\ \E id \in DOMAIN last.post \ DOMAIN last.pre :
             last.post[id].status =
                IF Truthy(last.body.status) THEN last.body.status ELSE PendingStatus

\* A create with numbers given as text and an empty status was saved.
C2_Witness ==
    /\ C2_Case
    /\ last.body.status = Str(<<>>)
    /\ AnswerCode = 201

\* C3: a create in which one of the eight required fields is missing or falsy
\* (0 and the empty string included) answers 400 "All fields are required."
\* without calling the storage, and the collection is as it was.
C3_MissingFieldRejected ==
    (last.op = "post" /\ \E f \in RequiredFields : ~Truthy(last.body[f])) =>
        /\ Answered(400, "All fields are required.")
        /\ last.call = "none"
        /\ last.post = last.pre

\* A create with quantity 0 was answered 400.
C3_Witness ==
    /\ last.op = "post"
    /\ last.body.quantity = Num(0)
    /\ Answered(400, "All fields are required.")

StatusOnly(b) ==
    /\ b.status # Undefined
    /\ \A f \in Fields \ {"status"} : b[f] = Undefined

\* C5: an update of a record that exists when the storage call runs, with a
\* body holding only a status, answers 200 (the storage call returning), sets
\* the status of the record to the supplied value and leaves its other fields
\* and the other records as they were.
C5_StatusOnlyUpdate ==
    (/\ last.op = "put" /\ StatusOnly(last.body)
     /\ last.call = "returned" /\ last.id \in DOMAIN last.pre) =>
        /\ Answered(200, "Material request updated successfully")
        /\ DOMAIN last.post = DOMAIN last.pre
        /\ last.post[last.id].status = last.body.status
        /\ \A f \in Fields \ {"status"} : last.post[last.id][f] = last.pre[last.id][f]
        /\ \A i \in DOMAIN last.pre \ {last.id} : last.post[i] = last.pre[i]
        /\ last.resp[1].order = last.post[last.id]

\* A status-only update of one of two stored records was answered 200.
C5_Witness ==
    /\ last.op = "put" /\ StatusOnly(last.body)
    /\ last.body.status = Shipped
    /\ Cardinality(DOMAIN last.pre) = 2
    /\ last.id \in DOMAIN last.pre
    /\ AnswerCode = 200

HasAllNumbers(b) == \A f \in NumFields : b[f] # Undefined

\* C7 as stated: an update whose body holds quantity, unitPrice and a
\* totalPrice that differs from quantity * unitPrice rounded to two decimals
\* answers 400 with the message create answers a wrong total with, and the
\* storage update is not made.
C7_WrongTotalSameMessage ==
    (/\ last.op = "put" /\ HasAllNumbers(last.body) /\ BodyParses(last.body)
     /\ ~BodyFits(last.body)) =>
        /\ Answered(400, "Error in Total Price: Your total price is incorrect")
        /\ last.call = "none"
        /\ last.post = last.pre

\* The body holds quantity and unitPrice and no totalPrice.
NoTotal(b) ==
    /\ b.quantity # Undefined /\ b.unitPrice # Undefined
    /\ b.totalPrice = Undefined

\* C8: an update whose body holds quantity and unitPrice and no totalPrice is
\* never answered 400; on a record that exists when the storage call runs it
\* answers 200 (the storage call returning), writes the parsed quantity and
\* unitPrice and leaves the stored totalPrice as it was.
C8_NoTotalNoCheck ==
    (last.op = "put" /\ NoTotal(last.body)) =>
        /\ AnswerCode # 400
        /\ (last.call = "returned" /\ last.id \in DOMAIN last.pre) =>
            /\ Answered(200, "Material request updated successfully")
            /\ last.post[last.id].quantity = ParseFloat(last.body.quantity)
            /\ last.post[last.id].unitPrice = ParseFloat(last.body.unitPrice)
            /\ last.post[last.id].totalPrice = last.pre[last.id].totalPrice

\* An update to 5 * 4 without a total was written over a total of 5.01.
C8_Witness ==
    /\ last.op = "put" /\ NoTotal(last.body)
    /\ AnswerCode = 200
    /\ last.post[last.id].quantity = Num(5000)
    /\ last.post[last.id].totalPrice = Num(5010)

\* C9: every finished request was answered exactly once: 500 with a generic
\* message and nothing stored when its storage call threw and only then, 400
\* when the body failed validation, 404 when the identifier of a get, update
\* or delete resolved to no record.
C9_OneResponse ==
    last.op # "idle" =>
        /\ Len(last.resp) = 1
        /\ AnswerCode \in {200, 201, 400, 404, 500}
        /\ last.call = "threw" <=> AnswerCode = 500
        /\ last.call = "threw" =>
            /\ last.resp[1].message \in
                 {"Server error", "Server error. Please try again later."}
            /\ last.post = last.pre
        /\ last.call = "none" <=> AnswerCode = 400
        /\ (/\ last.call = "returned" /\ last.op \in {"get", "put", "delete"}
            /\ last.id \notin DOMAIN last.pre) => AnswerCode = 404

\* The storage call of an update threw and was answered 500.
C9_Witness ==
    /\ last.op = "put" /\ last.call = "threw"
    /\ Answered(500, "Server error. Please try again later.")

\* C10: an update whose storage call finds no record under the id (never
\* created, or deleted before the call ran) answers 404 "Material request not
\* found" and leaves the collection as it was; identifiers are added by
\* create alone and removed by delete alone.
C10_UpdateNeverCreates ==
    /\ (/\ last.op = "put" /\ last.call = "returned"
        /\ last.id \notin DOMAIN last.pre) =>
            /\ Answered(404, "Material request not found")
            /\ last.post = last.pre
    /\ last.op # "post" => DOMAIN last.post \subseteq DOMAIN last.pre
    /\ last.op # "delete" => DOMAIN last.pre \subseteq DOMAIN last.post

\* An update of a deleted id was answered 404.
C10_Witness ==
    /\ last.op = "put" /\ last.call = "returned"
    /\ last.id \in deletedOk
    /\ Answered(404, "Material request not found")
====
